---- MODULE Spec2Model ----
(***************************************************************************)
(* fastapi-simple-profiler: the in-memory metrics store (FastAPIProfiler)  *)
(* and the request-measuring middleware (ProfilerMiddleware.dispatch).     *)
(*                                                                         *)
(* Threads run the store's methods one attribute access at a time, which   *)
(* is the granularity at which CPython may switch threads.  Python lists   *)
(* are objects: `heap` maps a list object to its content, the attribute    *)
(* profiled_requests_data holds a reference, append mutates the object in  *)
(* place and a slice or a [] literal makes a new object.                   *)
(***************************************************************************)
EXTENDS Integers, Sequences, FiniteSets, TLC

\* ------------------------------------------------------------- bounds
NThreads == 2
MaxCap == 2
MaxCalls == 5
MaxOverlap == 1
MaxTime == 1
MaxRequests == 2

\* ---------------------------------------------------- program constants
DefaultCapacity == 1000
SentinelStatus == 500

Threads == 1..NThreads
ObjIds == 1..(NThreads + 2)
NoRef == 0
Capacities == (0 - 1)..MaxCap
Paths == {"/a", "/b"}
Methods == {"GET"}
Statuses == {200}
QueryValues == {"", "true", "FALSE"}
EnvValues == {"false", "TRUE"}
CpuTimes == {0, 5}
Failures == {"RuntimeError", "CancelledError"}

desired_columns ==
    <<"Timestamp", "RequestPath", "HTTPMethod", "StatusCode", "TotalTimeMs", "CPUTimeMs">>

\* The dict a caller hands to add_profile_data: the six documented keys.
Entry(path, status) ==
    [Timestamp |-> 0, RequestPath |-> path, HTTPMethod |-> "GET",
     StatusCode |-> status, TotalTimeMs |-> 0, CPUTimeMs |-> 0]

Entries == {Entry(p, 200) : p \in Paths}
NoEntry == <<>>

\* The dict objects of a run: every add_profile_data call brings one.
DictIds == 1..MaxCalls

VARIABLES
    max_retained_requests,   \* self.max_retained_requests
    profiled_requests_data,  \* self.profiled_requests_data: a reference to a list object
    heap,                    \* list object -> its content
    lock,                    \* FastAPIProfiler._lock: 0 when free, else the holder
    pc,                      \* each thread's position
    frame,                   \* each thread's locals
    result,                  \* how each thread's last operation ended
    ncalls,                  \* operations invoked so far (bounds the run)
    overlaps,                \* of these, invoked while another was in progress
    submitted,               \* entries handed to add_profile_data since the last clear
    steady,                  \* the capacity was not changed since the store was last empty
    base,                    \* the store when the current burst of calls began
    pending,                 \* the calls of the current burst, in call order
    mw,                      \* the ProfilerMiddleware instance, once constructed
    profiler_available,      \* whether pyinstrument's Profiler was importable
    now,                     \* the clock, in seconds
    nrequests,               \* requests handed to dispatch so far (bounds the run)
    cls                      \* the class: _instance (0 for None), objects created, threads
                             \* that hold the instance

vars == <<max_retained_requests, profiled_requests_data, heap, lock, pc, frame,
          result, ncalls, overlaps, submitted, steady, base, pending, mw, profiler_available, now,
          nrequests, cls>>

\* What the store's own steps leave alone.
rest == <<ncalls, overlaps, submitted, steady, base, pending, mw, profiler_available, now,
          nrequests, cls>>

\* ------------------------------------------------------------ helpers
Max(a, b) == IF a >= b THEN a ELSE b
Min(a, b) == IF a <= b THEN a ELSE b

\* A slice that keeps the oldest n entries, s[:n], instead of the newest.
SliceFromHead(s, n) == SubSeq(s, 1, Min(Max(n, 0), Len(s)))

\* s[-n:] as Python evaluates it (-0 is 0, so s[-0:] is the whole list).
SliceFrom(s, n) ==
    LET start == IF n > 0 THEN Max(Len(s) - n, 0)
                 ELSE IF n = 0 THEN 0
                 ELSE Min(0 - n, Len(s))
    IN  SubSeq(s, start + 1, Len(s))

\* A list holds references to dict objects.  A reference is written as the
\* object's identity with the object's current content, and a change of a dict
\* is made at every reference to it (Rewrite).
Elem(id, val) == [id |-> id, val |-> val]

\* The dicts a list refers to, as values.
Vals(l) == [i \in 1..Len(l) |-> l[i].val]

\* A thread's locals.  The middleware's locals are those of dispatch; exc is
\* the exception in flight ("" when none), response 0 stands for None; seen
\* remembers the entries the store held when get_profile_data loaded the list,
\* finish the rank of the moment call_next came back (0 before).
EmptyFrame ==
    [op |-> "", cap_arg |-> 0, data_arg |-> NoEntry, data_id |-> 0, ref |-> NoRef,
     len |-> 0, n |-> 0, tmp |-> <<>>, seen |-> <<>>,
     enable |-> FALSE, path |-> "", method |-> "", query |-> "", env |-> "",
     profiler |-> FALSE,
     start_time |-> 0, response |-> 0, downstream |-> "", exc |-> "", nrec |-> 0,
     finish |-> 0]

\* How an operation ended: the exception it raised ("" when it returned), the
\* list or status it returned, what the downstream handler did (dispatch only),
\* how often the operation called add_profile_data and with which entry.
NoResult ==
    [op |-> "", raised |-> "", value |-> <<>>, status |-> 0,
     downstream |-> "", nrec |-> 0, entry |-> NoEntry, seen |-> <<>>, finish |-> 0]

Referenced(d, f) == {d} \cup {f[t].ref : t \in Threads}

\* A fresh list object: an id nothing refers to.
NewObj == CHOOSE o \in ObjIds :
              /\ o \notin Referenced(profiled_requests_data, frame)
              /\ \A p \in ObjIds :
                     p \notin Referenced(profiled_requests_data, frame) => o <= p

\* Garbage collection: an object nothing refers to is gone.
Collect(h, d, f) == [o \in ObjIds |-> IF o \in Referenced(d, f) THEN h[o] ELSE <<>>]

AllIdle == \A t \in Threads : pc[t] = "idle"

\* What get_profile_data would return now, as values (nothing while the
\* instance has no list yet).
CurrentEntries ==
    IF profiled_requests_data = NoRef THEN <<>> ELSE Vals(heap[profiled_requests_data])

\* lines 26-38: the class once a call of FastAPIProfiler() has returned and
\* every thread holds the instance it made.
Constructed == [obj |-> 1, created |-> 1, holders |-> Threads]

\* The list a thread's last get_profile_data call returned to it.
Held(r, t) == IF r[t].op = "snapshot" THEN r[t].value ELSE <<>>

\* The identities of the dict objects something refers to.
UsedDicts ==
    LET In(l) == {l[i].id : i \in 1..Len(l)}
    IN  UNION ({In(heap[o]) : o \in ObjIds}
               \cup {In(frame[t].tmp) : t \in Threads}
               \cup {In(Held(result, t)) : t \in Threads}
               \cup {{frame[t].data_id} : t \in Threads})

\* A fresh dict object: the least identity nothing refers to.
NewDict == CHOOSE k \in DictIds :
               /\ k \notin UsedDicts
               /\ \A j \in DictIds : j \notin UsedDicts => k <= j

\* ---------------------------------------------------------------- Init
\* The process with an idle store of capacity cap and the middleware m.
Started(cap, avail, m) ==
    /\ max_retained_requests = cap
    /\ profiled_requests_data = 1
    /\ heap = [o \in ObjIds |-> <<>>]
    /\ lock = 0
    /\ pc = [t \in Threads |-> "idle"]
    /\ frame = [t \in Threads |-> EmptyFrame]
    /\ result = [t \in Threads |-> NoResult]
    /\ ncalls = 0
    /\ overlaps = 0
    /\ submitted = <<>>
    /\ steady = TRUE
    /\ base = [cap |-> cap, entries |-> <<>>]
    /\ pending = <<>>
    /\ mw = m
    /\ profiler_available = avail
    /\ now = 0
    /\ nrequests = 0
    /\ cls = Constructed

\* The process with an idle store of capacity cap and no middleware yet.
Fresh(cap, avail) == Started(cap, avail, [constructed |-> FALSE, enable_by_default |-> FALSE])

\* FastAPIProfiler.__new__: an empty list and the default capacity.
Init == Fresh(DefaultCapacity, TRUE)

\* --------------------------------------------------------------- calls
\* A thread invokes an operation with the locals fr and starts at `first`.
Invoke(t, fr, first) ==
    /\ pc[t] = "idle"
    /\ ncalls < MaxCalls
    /\ AllIdle \/ overlaps < MaxOverlap
    /\ ncalls' = ncalls + 1
    /\ overlaps' = IF AllIdle THEN overlaps ELSE overlaps + 1
    /\ pc' = [pc EXCEPT ![t] = first]
    /\ frame' = [frame EXCEPT ![t] = fr]
    /\ result' = [result EXCEPT ![t] = [NoResult EXCEPT !.op = fr.op]]
    /\ submitted' = IF fr.op = "record" THEN Append(submitted, fr.data_arg) ELSE submitted
    /\ base' = IF AllIdle
               THEN [cap |-> max_retained_requests, entries |-> CurrentEntries]
               ELSE base
    /\ pending' = (IF AllIdle THEN <<>> ELSE pending)
                      \o <<[op |-> fr.op, cap |-> fr.cap_arg, data |-> fr.data_arg]>>
    /\ nrequests' = IF fr.op = "dispatch" THEN nrequests + 1 ELSE nrequests
    /\ UNCHANGED <<max_retained_requests, profiled_requests_data, heap, lock,
                   steady, mw, profiler_available, now, cls>>

\* The operation ends: it raises `raised`, or returns value / status.
Return(t, raised, value, status) ==
    /\ pc' = [pc EXCEPT ![t] = "idle"]
    /\ frame' = [frame EXCEPT ![t] = EmptyFrame]
    /\ result' = [result EXCEPT ![t] =
                     [op |-> frame[t].op, raised |-> raised, value |-> value,
                      status |-> status, downstream |-> frame[t].downstream,
                      nrec |-> frame[t].nrec, entry |-> frame[t].data_arg,
                      seen |-> frame[t].seen, finish |-> frame[t].finish]]

CallConfigure(t) ==
    \E c \in Capacities :
        Invoke(t, [EmptyFrame EXCEPT !.op = "configure", !.cap_arg = c], "cfg_check")

CallRecord(t) ==
    \E e \in Entries :
        Invoke(t, [EmptyFrame EXCEPT !.op = "record", !.data_arg = e, !.data_id = NewDict],
               "rec_lock")

CallSnapshot(t) == Invoke(t, [EmptyFrame EXCEPT !.op = "snapshot"], "snap_lock")

CallClear(t) == Invoke(t, [EmptyFrame EXCEPT !.op = "clear"], "clr_lock")

CallExport(t) == Invoke(t, [EmptyFrame EXCEPT !.op = "export"], "snap_lock")

\* ProfilerMiddleware.__init__: keeps enable_by_default and hands
\* max_retained_requests to the store's configure.
CallMiddlewareInit(t) ==
    \E c \in Capacities : \E en \in BOOLEAN :
        Invoke(t, [EmptyFrame EXCEPT !.op = "mw_init", !.cap_arg = c, !.enable = en],
               "cfg_check")

\* ------------------------------------------------ FastAPIProfiler.__new__
\* The capacity attribute of an instance that has none yet.
Unset == 0

CallNew(t) == Invoke(t, [EmptyFrame EXCEPT !.op = "new"], "new_check")

\* line 30: if cls._instance is None, read without the lock.
NewCheck(t) ==
    /\ pc[t] = "new_check"
    /\ pc' = [pc EXCEPT ![t] = IF cls.obj = 0 THEN "new_lock" ELSE "new_return"]
    /\ UNCHANGED <<max_retained_requests, profiled_requests_data, heap, lock, frame, result,
                   rest>>

\* line 31: with cls._lock.
NewLock(t) ==
    /\ pc[t] = "new_lock"
    /\ lock = 0
    /\ lock' = t
    /\ pc' = [pc EXCEPT ![t] = "new_recheck"]
    /\ UNCHANGED <<max_retained_requests, profiled_requests_data, heap, frame, result, rest>>

\* A constructor that, once it has the lock, creates without looking again.
NewRecheckSkipped(t) ==
    /\ pc[t] = "new_recheck"
    /\ pc' = [pc EXCEPT ![t] = "new_create"]
    /\ UNCHANGED <<max_retained_requests, profiled_requests_data, heap, lock, frame, result,
                   rest>>

\* line 33: if cls._instance is None, read again under the lock.
NewRecheck(t) ==
    /\ pc[t] = "new_recheck"
    /\ pc' = [pc EXCEPT ![t] = IF cls.obj = 0 THEN "new_create" ELSE "new_unlock"]
    /\ UNCHANGED <<max_retained_requests, profiled_requests_data, heap, lock, frame, result,
                   rest>>

\* line 34: cls._instance = super().__new__(cls): the new object is bound to
\* the class attribute before it has any attribute of its own.
NewCreate(t) ==
    /\ pc[t] = "new_create"
    /\ cls' = [cls EXCEPT !.obj = cls.created + 1, !.created = @ + 1]
    /\ pc' = [pc EXCEPT ![t] = "new_init_data"]
    /\ UNCHANGED <<max_retained_requests, profiled_requests_data, heap, lock, frame, result,
                   ncalls, overlaps, submitted, steady, base, pending, mw,
                   profiler_available, now, nrequests>>

\* line 36: cls._instance.profiled_requests_data = [].
NewInitData(t) ==
    /\ pc[t] = "new_init_data"
    /\ LET o == NewObj
       IN  /\ profiled_requests_data' = o
           /\ heap' = Collect([heap EXCEPT ![o] = <<>>], o, frame)
    /\ pc' = [pc EXCEPT ![t] = "new_init_cap"]
    /\ UNCHANGED <<max_retained_requests, lock, frame, result, rest>>

\* line 37: cls._instance.max_retained_requests = 1000.
NewInitCap(t) ==
    /\ pc[t] = "new_init_cap"
    /\ max_retained_requests' = DefaultCapacity
    /\ pc' = [pc EXCEPT ![t] = "new_unlock"]
    /\ UNCHANGED <<profiled_requests_data, heap, lock, frame, result, rest>>

\* leaving the with-block.
NewUnlock(t) ==
    /\ pc[t] = "new_unlock"
    /\ lock' = 0
    /\ pc' = [pc EXCEPT ![t] = "new_return"]
    /\ UNCHANGED <<max_retained_requests, profiled_requests_data, heap, frame, result, rest>>

\* line 38: return cls._instance; the caller now holds that object.
NewReturn(t) ==
    /\ pc[t] = "new_return"
    /\ Return(t, "", <<>>, cls.obj)
    /\ cls' = [cls EXCEPT !.holders = @ \cup {t}]
    /\ UNCHANGED <<max_retained_requests, profiled_requests_data, heap, lock,
                   ncalls, overlaps, submitted, steady, base, pending, mw,
                   profiler_available, now, nrequests>>

\* ----------------------------------------------------------- configure
\* A check that lets a capacity of 0 through.
InvalidCapacityOffByOne(c) == c < 0

InvalidCapacity(c) == c < 1

\* A configure that stores the capacity before it validates it.
CfgCheckLate(t) ==
    /\ pc[t] = "cfg_check"
    /\ max_retained_requests' = frame[t].cap_arg
    /\ IF InvalidCapacity(frame[t].cap_arg)
       THEN Return(t, "ValueError", <<>>, 0)
       ELSE /\ pc' = [pc EXCEPT ![t] = "cfg_set"]
            /\ UNCHANGED <<frame, result>>
    /\ UNCHANGED <<profiled_requests_data, heap, lock, rest>>

\* configure, lines 50-51: reject a capacity below 1 before touching anything.
\* The ValueError also ends a middleware constructor that called configure.
CfgCheck(t) ==
    /\ pc[t] = "cfg_check"
    /\ IF InvalidCapacity(frame[t].cap_arg)
       THEN Return(t, "ValueError", <<>>, 0)
       ELSE /\ pc' = [pc EXCEPT ![t] = "cfg_set"]
            /\ UNCHANGED <<frame, result>>
    /\ UNCHANGED <<max_retained_requests, profiled_requests_data, heap, lock, rest>>

\* A configure that stores the capacity and returns without pruning.
CfgSetNoPrune(t) ==
    /\ pc[t] = "cfg_set"
    /\ max_retained_requests' = frame[t].cap_arg
    /\ pc' = [pc EXCEPT ![t] = "cfg_return"]
    /\ steady' = (steady /\ submitted = <<>>)
    /\ UNCHANGED <<profiled_requests_data, heap, lock, frame, result,
                   ncalls, overlaps, submitted, base, pending, mw, profiler_available,
                   now, nrequests, cls>>

\* A configure that starts the store over with an empty list.
CfgSetClears(t) ==
    /\ pc[t] = "cfg_set"
    /\ max_retained_requests' = frame[t].cap_arg
    /\ LET o == NewObj
       IN  /\ profiled_requests_data' = o
           /\ heap' = Collect([heap EXCEPT ![o] = <<>>], o, frame)
    /\ pc' = [pc EXCEPT ![t] = "prune_len"]
    /\ steady' = (steady /\ submitted = <<>>)
    /\ UNCHANGED <<lock, frame, result,
                   ncalls, overlaps, submitted, base, pending, mw, profiler_available,
                   now, nrequests, cls>>

\* configure, line 52: self.max_retained_requests = max_retained_requests.
\* No lock is taken anywhere in configure.
CfgSet(t) ==
    /\ pc[t] = "cfg_set"
    /\ max_retained_requests' = frame[t].cap_arg
    /\ pc' = [pc EXCEPT ![t] = "prune_len"]
    /\ steady' = (steady /\ submitted = <<>>)
    /\ UNCHANGED <<profiled_requests_data, heap, lock, frame, result,
                   ncalls, overlaps, submitted, base, pending, mw, profiler_available,
                   now, nrequests, cls>>

\* configure returns None; a middleware constructor that called it is done.
CfgReturn(t) ==
    /\ pc[t] = "cfg_return"
    /\ Return(t, "", <<>>, 0)
    /\ mw' = IF frame[t].op = "mw_init"
             THEN [constructed |-> TRUE, enable_by_default |-> frame[t].enable]
             ELSE mw
    /\ UNCHANGED <<max_retained_requests, profiled_requests_data, heap, lock,
                   ncalls, overlaps, submitted, steady, base, pending,
                   profiler_available, now, nrequests, cls>>

\* ------------------------------------------------------ _prune_old_data
\* A prune that takes the lock itself, as if it could be called from outside.
PruneLenRelock(t) ==
    /\ pc[t] = "prune_len"
    /\ lock = 0
    /\ lock' = t
    /\ frame' = [frame EXCEPT ![t].len = Len(heap[profiled_requests_data])]
    /\ pc' = [pc EXCEPT ![t] = "prune_cmp"]
    /\ UNCHANGED <<max_retained_requests, profiled_requests_data, heap, result, rest>>

\* line 75, left operand: len(self.profiled_requests_data); an instance
\* whose list attribute is not set yet raises AttributeError, and the
\* with-block of a caller that holds the lock releases it on the way out.
PruneLen(t) ==
    /\ pc[t] = "prune_len"
    /\ IF profiled_requests_data = NoRef
       THEN /\ Return(t, "AttributeError", <<>>, 0)
            /\ lock' = IF lock = t THEN 0 ELSE lock
       ELSE /\ frame' = [frame EXCEPT ![t].len = Len(heap[profiled_requests_data])]
            /\ pc' = [pc EXCEPT ![t] = "prune_cmp"]
            /\ UNCHANGED <<result, lock>>
    /\ UNCHANGED <<max_retained_requests, profiled_requests_data, heap, rest>>

\* Where _prune_old_data returns to: configure's last line, or the end of
\* add_profile_data's with-block.
AfterPrune(t) == IF frame[t].op \in {"configure", "mw_init"} THEN "cfg_return" ELSE "rec_unlock"

\* line 75, right operand and the comparison: > self.max_retained_requests.
PruneCmp(t) ==
    /\ pc[t] = "prune_cmp"
    /\ pc' = [pc EXCEPT ![t] = IF frame[t].len > max_retained_requests
                               THEN "prune_load"
                               ELSE AfterPrune(t)]
    /\ frame' = [frame EXCEPT ![t].len = 0]
    /\ UNCHANGED <<max_retained_requests, profiled_requests_data, heap, lock, result, rest>>

\* line 77, right-hand side: load self.profiled_requests_data.
PruneLoad(t) ==
    /\ pc[t] = "prune_load"
    /\ frame' = [frame EXCEPT ![t].ref = profiled_requests_data]
    /\ pc' = [pc EXCEPT ![t] = "prune_max"]
    /\ UNCHANGED <<max_retained_requests, profiled_requests_data, heap, lock, result, rest>>

\* line 77: load self.max_retained_requests for the slice bound.
PruneMax(t) ==
    /\ pc[t] = "prune_max"
    /\ frame' = [frame EXCEPT ![t].n = max_retained_requests]
    /\ pc' = [pc EXCEPT ![t] = "prune_slice"]
    /\ UNCHANGED <<max_retained_requests, profiled_requests_data, heap, lock, result, rest>>

\* line 77: the slice [-n:] builds a new list from the loaded object.
PruneSlice(t) ==
    /\ pc[t] = "prune_slice"
    /\ LET o == NewObj
           f == [frame EXCEPT ![t].ref = o, ![t].n = 0]
       IN  /\ frame' = f
           /\ heap' = Collect([heap EXCEPT ![o] = SliceFrom(heap[frame[t].ref], frame[t].n)],
                              profiled_requests_data, f)
    /\ pc' = [pc EXCEPT ![t] = "prune_store"]
    /\ UNCHANGED <<max_retained_requests, profiled_requests_data, lock, result, rest>>

\* line 77, left-hand side: bind the attribute to the new list.
PruneStore(t) ==
    /\ pc[t] = "prune_store"
    /\ profiled_requests_data' = frame[t].ref
    /\ LET f == [frame EXCEPT ![t].ref = NoRef]
       IN  /\ frame' = f
           /\ heap' = Collect(heap, frame[t].ref, f)
    /\ pc' = [pc EXCEPT ![t] = AfterPrune(t)]
    /\ UNCHANGED <<max_retained_requests, lock, result, rest>>

\* ----------------------------------------------------- add_profile_data
\* An add_profile_data that enters its block without taking the lock.
RecLockNoWait(t) ==
    /\ pc[t] = "rec_lock"
    /\ pc' = [pc EXCEPT ![t] = "rec_load"]
    /\ UNCHANGED <<max_retained_requests, profiled_requests_data, heap, lock, frame, result,
                   rest>>

\* line 66: with self._lock.
RecLock(t) ==
    /\ pc[t] = "rec_lock"
    /\ lock = 0
    /\ lock' = t
    /\ pc' = [pc EXCEPT ![t] = "rec_load"]
    /\ UNCHANGED <<max_retained_requests, profiled_requests_data, heap, frame, result, rest>>

\* line 67: load self.profiled_requests_data (the receiver of append).
RecLoad(t) ==
    /\ pc[t] = "rec_load"
    /\ frame' = [frame EXCEPT ![t].ref = profiled_requests_data]
    /\ pc' = [pc EXCEPT ![t] = "rec_append"]
    /\ UNCHANGED <<max_retained_requests, profiled_requests_data, heap, lock, result, rest>>

\* An append that skips an entry equal to one already in the list.
RecAppendDedup(t) ==
    /\ pc[t] = "rec_append"
    /\ LET f == [frame EXCEPT ![t].ref = NoRef]
           old == heap[frame[t].ref]
           new == IF \E i \in 1..Len(old) : old[i].val = frame[t].data_arg
                  THEN old
                  ELSE Append(old, Elem(frame[t].data_id, frame[t].data_arg))
       IN  /\ frame' = f
           /\ heap' = Collect([heap EXCEPT ![frame[t].ref] = new],
                              profiled_requests_data, f)
    /\ pc' = [pc EXCEPT ![t] = "prune_len"]
    /\ UNCHANGED <<max_retained_requests, profiled_requests_data, lock, result, rest>>

\* An insert at the head of the list, newest first.
RecAppendFront(t) ==
    /\ pc[t] = "rec_append"
    /\ LET f == [frame EXCEPT ![t].ref = NoRef]
       IN  /\ frame' = f
           /\ heap' = Collect([heap EXCEPT ![frame[t].ref] =
                                   <<Elem(frame[t].data_id, frame[t].data_arg)>> \o @],
                              profiled_requests_data, f)
    /\ pc' = [pc EXCEPT ![t] = "prune_len"]
    /\ UNCHANGED <<max_retained_requests, profiled_requests_data, lock, result, rest>>

\* line 67: .append(data) mutates the loaded list object in place; the list
\* now refers to the caller's dict.
RecAppend(t) ==
    /\ pc[t] = "rec_append"
    /\ LET f == [frame EXCEPT ![t].ref = NoRef]
       IN  /\ frame' = f
           /\ heap' = Collect([heap EXCEPT ![frame[t].ref] = Append(@, Elem(frame[t].data_id, frame[t].data_arg))],
                              profiled_requests_data, f)
    /\ pc' = [pc EXCEPT ![t] = "prune_len"]
    /\ UNCHANGED <<max_retained_requests, profiled_requests_data, lock, result, rest>>

\* end of the with-block: release the lock; add_profile_data returns None,
\* to dispatch's finally block when dispatch called it.
RecUnlock(t) ==
    /\ pc[t] = "rec_unlock"
    /\ lock' = 0
    /\ IF frame[t].op = "dispatch"
       THEN /\ pc' = [pc EXCEPT ![t] = "mw_return"]
            /\ UNCHANGED <<frame, result>>
       ELSE Return(t, "", <<>>, 0)
    /\ UNCHANGED <<max_retained_requests, profiled_requests_data, heap, rest>>

\* ----------------------------------------------------- get_profile_data
\* line 87: with self._lock.
SnapLock(t) ==
    /\ pc[t] = "snap_lock"
    /\ lock = 0
    /\ lock' = t
    /\ pc' = [pc EXCEPT ![t] = "snap_load"]
    /\ UNCHANGED <<max_retained_requests, profiled_requests_data, heap, frame, result, rest>>

\* line 88: load self.profiled_requests_data.
SnapLoad(t) ==
    /\ pc[t] = "snap_load"
    /\ frame' = [frame EXCEPT ![t].ref = profiled_requests_data,
                              ![t].seen = CurrentEntries]
    /\ pc' = [pc EXCEPT ![t] = "snap_copy"]
    /\ UNCHANGED <<max_retained_requests, profiled_requests_data, heap, lock, result, rest>>

\* A get_profile_data that hands out the entries and empties the list it
\* copied them from.
SnapCopyDrain(t) ==
    /\ pc[t] = "snap_copy"
    /\ LET f == [frame EXCEPT ![t].ref = NoRef, ![t].tmp = heap[frame[t].ref]]
       IN  /\ frame' = f
           /\ heap' = Collect([heap EXCEPT ![frame[t].ref] = <<>>],
                              profiled_requests_data, f)
    /\ pc' = [pc EXCEPT ![t] = "snap_unlock"]
    /\ UNCHANGED <<max_retained_requests, profiled_requests_data, lock, result, rest>>

\* line 88: list(...) builds a new list referring to the same dicts as the
\* loaded object.
SnapCopy(t) ==
    /\ pc[t] = "snap_copy"
    /\ LET f == [frame EXCEPT ![t].ref = NoRef, ![t].tmp = heap[frame[t].ref]]
       IN  /\ frame' = f
           /\ heap' = Collect(heap, profiled_requests_data, f)
    /\ pc' = [pc EXCEPT ![t] = "snap_unlock"]
    /\ UNCHANGED <<max_retained_requests, profiled_requests_data, lock, result, rest>>

\* leaving the with-block: release the lock and return the copy; export_to_csv
\* goes on to format it.
SnapUnlock(t) ==
    /\ pc[t] = "snap_unlock"
    /\ lock' = 0
    /\ IF frame[t].op = "export"
       THEN /\ pc' = [pc EXCEPT ![t] = "exp_format"]
            /\ UNCHANGED <<frame, result>>
       ELSE Return(t, "", frame[t].tmp, 0)
    /\ UNCHANGED <<max_retained_requests, profiled_requests_data, heap, rest>>

\* ------------------------------------- the caller of get_profile_data
\* The status a caller writes into a dict of the list it was handed.
TamperedStatus == 418

\* The list l after the dict object id has taken the content v.
Rewrite(l, id, v) == [i \in 1..Len(l) |-> IF l[i].id = id THEN Elem(id, v) ELSE l[i]]

\* The caller removes the last element of the list it was handed
\* (returned_list.pop()): the list is the caller's own object.
MutateList(t) ==
    /\ pc[t] = "idle"
    /\ Held(result, t) # <<>>
    /\ result' = [result EXCEPT ![t].value = SubSeq(@, 1, Len(@) - 1)]
    /\ UNCHANGED <<max_retained_requests, profiled_requests_data, heap, lock, pc, frame,
                   rest>>

\* The caller assigns to a key of a dict in the list it was handed
\* (returned_list[i]["StatusCode"] = ...): the dict is the object every list
\* built from the store's list refers to.
MutateEntry(t) ==
    /\ pc[t] = "idle"
    /\ \E i \in 1..Len(Held(result, t)) :
          LET k == Held(result, t)[i].id
              v == [Held(result, t)[i].val EXCEPT !.StatusCode = TamperedStatus]
          IN  /\ Held(result, t)[i].val.StatusCode # TamperedStatus
              /\ heap' = [o \in ObjIds |-> Rewrite(heap[o], k, v)]
              /\ result' = [u \in Threads |->
                                IF result[u].op = "snapshot"
                                THEN [result[u] EXCEPT !.value = Rewrite(@, k, v)]
                                ELSE result[u]]
              /\ frame' = [u \in Threads |->
                               [frame[u] EXCEPT !.tmp = Rewrite(@, k, v),
                                                !.data_arg = IF frame[u].data_id = k
                                                             THEN v ELSE @]]
    /\ UNCHANGED <<max_retained_requests, profiled_requests_data, lock, pc, rest>>

\* ----------------------------------------------------------- clear_data
\* line 95: with self._lock.
ClrLock(t) ==
    /\ pc[t] = "clr_lock"
    /\ lock = 0
    /\ lock' = t
    /\ pc' = [pc EXCEPT ![t] = "clr_store"]
    /\ UNCHANGED <<max_retained_requests, profiled_requests_data, heap, frame, result, rest>>

\* A clear_data that builds the empty list and binds a local name to it.
ClrStoreLocal(t) ==
    /\ pc[t] = "clr_store"
    /\ pc' = [pc EXCEPT ![t] = "clr_unlock"]
    /\ submitted' = <<>>
    /\ steady' = TRUE
    /\ UNCHANGED <<max_retained_requests, profiled_requests_data, heap, lock, frame, result,
                   ncalls, overlaps, base, pending, mw, profiler_available, now, nrequests, cls>>

\* line 96: bind the attribute to a new empty list.
ClrStore(t) ==
    /\ pc[t] = "clr_store"
    /\ LET o == NewObj
       IN  /\ profiled_requests_data' = o
           /\ heap' = Collect([heap EXCEPT ![o] = <<>>], o, frame)
    /\ pc' = [pc EXCEPT ![t] = "clr_unlock"]
    /\ submitted' = <<>>
    /\ steady' = TRUE
    /\ UNCHANGED <<max_retained_requests, lock, frame, result,
                   ncalls, overlaps, base, pending, mw, profiler_available, now, nrequests, cls>>

\* leaving the with-block: release the lock; clear_data returns None.  Called
\* by the /profiler/clear handler (src/main.py lines 215-216), the handler then
\* returns its message; dispatch is still suspended at `await call_next` and
\* resumes in a later turn of the event loop.
ClrUnlock(t) ==
    /\ pc[t] = "clr_unlock"
    /\ lock' = 0
    /\ IF frame[t].op = "dispatch"
       THEN /\ frame' = [frame EXCEPT ![t].downstream = "handled"]
            /\ pc' = [pc EXCEPT ![t] = "mw_await"]
            /\ UNCHANGED result
       ELSE Return(t, "", <<>>, 0)
    /\ UNCHANGED <<max_retained_requests, profiled_requests_data, heap, rest>>

\* -------------------------------------------------------- export_to_csv
NA == "<NA>"

\* A row made of the values the dict has, in the order of the columns.
CsvRowOwnKeys(e) ==
    LET Pick(i) == IF desired_columns[i] \in DOMAIN e THEN <<e[desired_columns[i]]>>
                   ELSE <<>>
    IN  Pick(1) \o Pick(2) \o Pick(3) \o Pick(4) \o Pick(5) \o Pick(6)

\* One CSV row: the six desired columns in order, a missing key as NA.
CsvRow(e) ==
    [i \in 1..Len(desired_columns) |->
        IF desired_columns[i] \in DOMAIN e THEN e[desired_columns[i]] ELSE NA]

\* An export without the special case for no data: nothing to take the
\* columns from, so no header.
ToCsvNoHeader(data) ==
    IF data = <<>>
    THEN <<>>
    ELSE <<desired_columns>> \o [i \in 1..Len(data) |-> CsvRow(data[i])]

\* lines 108-131: the header, then one row per entry of the snapshot.
ToCsv(data) == <<desired_columns>> \o [i \in 1..Len(data) |-> CsvRow(data[i])]

\* lines 108-133: format the snapshot taken at line 106 and return the buffer.
ExpFormat(t) ==
    /\ pc[t] = "exp_format"
    /\ Return(t, "", ToCsv(Vals(frame[t].tmp)), 0)
    /\ UNCHANGED <<max_retained_requests, profiled_requests_data, heap, lock, rest>>

\* ------------------------------------------- ProfilerMiddleware.dispatch
\* str.lower() on the values the model draws.
Lower(v) ==
    CASE v = "TRUE" -> "true"
      [] v = "FALSE" -> "false"
      [] OTHER -> v

\* A decision that never looks at the per-request disable.
ProfileActiveNoDisable(enable_by_default, query, env) ==
    \/ enable_by_default
    \/ Lower(query) = "true"
    \/ Lower(env) = "true"

\* lines 73-87: whether CPU profiling is active for the request.
ProfileActive(enable_by_default, query, env) ==
    LET is_enabled_by_env == Lower(env) = "true"
        query_param_value == Lower(query)
        is_enabled_by_query == query_param_value = "true"
        is_disabled_by_query == query_param_value = "false"
    IN  \/ enable_by_default /\ ~is_disabled_by_query
        \/ ~enable_by_default /\ (is_enabled_by_query \/ is_enabled_by_env)

\* except Exception (line 102) catches this failure; a cancellation derives
\* from BaseException and is not caught.
IsException(x) == x # "CancelledError"

\* The framework hands a request to the constructed middleware.  query is the
\* value of the profile query parameter ("" when absent), env the value of
\* FASTAPI_SIMPLE_PROFILER_ENABLED ("false" when unset).
CallDispatch(t) ==
    /\ mw.constructed
    /\ nrequests < MaxRequests
    /\ \E p \in Paths : \E m \in Methods : \E q \in QueryValues : \E ev \in EnvValues :
          Invoke(t, [EmptyFrame EXCEPT !.op = "dispatch", !.path = p, !.method = m,
                                       !.query = q, !.env = ev],
                 "mw_start")

\* lines 73-97: decide profile_active, take start_time, start the profiler if
\* it is active and available.  Profiler.start() may raise; nothing catches it.
MwStart(t) ==
    /\ pc[t] = "mw_start"
    /\ LET active == ProfileActive(mw.enable_by_default, frame[t].query, frame[t].env)
           f == [frame EXCEPT ![t].query = "", ![t].env = "", ![t].start_time = now]
       IN  IF active /\ profiler_available
           THEN \/ /\ frame' = [f EXCEPT ![t].profiler = TRUE]
                   /\ pc' = [pc EXCEPT ![t] = "mw_await"]
                   /\ UNCHANGED result
                \/ Return(t, "ProfilerError", <<>>, 0)
           ELSE /\ frame' = f
                /\ pc' = [pc EXCEPT ![t] = "mw_await"]
                /\ UNCHANGED result
    /\ UNCHANGED <<max_retained_requests, profiled_requests_data, heap, lock, rest>>

\* The rank of thread t's call_next coming back now: after every finish that the
\* other threads' current or last requests show.
FinishRank(t) ==
    LET Shown(u) == IF pc[u] = "idle" THEN result[u].finish ELSE frame[u].finish
    IN  1 + Max(0, CHOOSE m \in {Shown(u) : u \in Threads \ {t}} \cup {0} :
                       \A u \in Threads \ {t} : Shown(u) <= m)

\* line 101: call_next returns a response.
CallNextReturns(t) ==
    /\ pc[t] = "mw_await"
    /\ \E st \in Statuses :
          frame' = [frame EXCEPT ![t].response = st, ![t].downstream = "returned",
                                 ![t].finish = FinishRank(t)]
    /\ pc' = [pc EXCEPT ![t] = "mw_finally"]
    /\ UNCHANGED <<max_retained_requests, profiled_requests_data, heap, lock, result, rest>>

\* lines 101-106: call_next raises.  An Exception is caught: response is still
\* None, so the placeholder 500 response is built, and the exception is raised
\* again.  Anything else passes the except clause by.  Either way the finally
\* block runs next with the exception in flight.
CallNextRaises(t) ==
    /\ pc[t] = "mw_await"
    /\ \E x \in Failures :
          frame' = [frame EXCEPT ![t].downstream = x, ![t].exc = x,
                                 ![t].finish = FinishRank(t),
                                 ![t].response = IF IsException(x) THEN SentinelStatus ELSE 0]
    /\ pc' = [pc EXCEPT ![t] = "mw_finally"]
    /\ UNCHANGED <<max_retained_requests, profiled_requests_data, heap, lock, result, rest>>

\* lines 124-131: the dict dispatch hands to add_profile_data.
ProfileData(t, cpu_time_ms) ==
    [Timestamp |-> now, RequestPath |-> frame[t].path, HTTPMethod |-> frame[t].method,
     StatusCode |-> frame[t].response,
     TotalTimeMs |-> (now - frame[t].start_time) * 1000, CPUTimeMs |-> cpu_time_ms]

\* lines 107-132, the finally block up to the call of add_profile_data: stop
\* the profiler (a failure of stop() replaces the exception in flight), read
\* its CPU time (a failure there is caught and leaves 0.0), build the entry
\* (response.status_code raises AttributeError when response is None).
MwFinally(t) ==
    /\ pc[t] = "mw_finally"
    /\ \E stop_ok \in BOOLEAN : \E cpu \in CpuTimes :
          /\ frame[t].profiler \/ (stop_ok /\ cpu = 0)
          /\ IF ~stop_ok
             THEN /\ Return(t, "ProfilerError", <<>>, 0)
                  /\ UNCHANGED submitted
             ELSE IF frame[t].response = 0
             THEN /\ Return(t, "AttributeError", <<>>, 0)
                  /\ UNCHANGED submitted
             ELSE /\ frame' = [frame EXCEPT ![t].data_arg = ProfileData(t, cpu),
                                            ![t].data_id = NewDict,
                                            ![t].nrec = @ + 1]
                  /\ submitted' = Append(submitted, ProfileData(t, cpu))
                  /\ pc' = [pc EXCEPT ![t] = "rec_lock"]
                  /\ UNCHANGED result
    /\ UNCHANGED <<max_retained_requests, profiled_requests_data, heap, lock,
                   ncalls, overlaps, steady, base, pending, mw, profiler_available, now, nrequests, cls>>

\* line 135: return response, from inside the finally block: the return
\* discards an exception in flight.
MwReturn(t) ==
    /\ pc[t] = "mw_return"
    /\ Return(t, "", <<>>, frame[t].response)
    /\ UNCHANGED <<max_retained_requests, profiled_requests_data, heap, lock, rest>>

\* Time passes.
Tick ==
    /\ now < MaxTime
    /\ now' = now + 1
    /\ UNCHANGED <<max_retained_requests, profiled_requests_data, heap, lock, pc, frame,
                   result, ncalls, overlaps, submitted, steady, base, pending, mw,
                   profiler_available, nrequests, cls>>

DispatchSteps(t) ==
    MwStart(t) \/ CallNextReturns(t) \/ CallNextRaises(t) \/ MwFinally(t) \/ MwReturn(t)

\* ------------------------------------------------------- specifications
ConfigureSteps(t) == CfgCheck(t) \/ CfgSet(t) \/ CfgReturn(t)

PruneSteps(t) ==
    PruneLen(t) \/ PruneCmp(t) \/ PruneLoad(t) \/ PruneMax(t) \/ PruneSlice(t) \/ PruneStore(t)

RecordSteps(t) == RecLock(t) \/ RecLoad(t) \/ RecAppend(t) \/ RecUnlock(t)

SnapshotSteps(t) == SnapLock(t) \/ SnapLoad(t) \/ SnapCopy(t) \/ SnapUnlock(t)

ClearSteps(t) == ClrLock(t) \/ ClrStore(t) \/ ClrUnlock(t)

\* The store under concurrent callers.
Next ==
    \E t \in Threads :
        \/ CallConfigure(t) \/ CallRecord(t) \/ CallSnapshot(t) \/ CallClear(t) \/ CallExport(t)
        \/ ConfigureSteps(t) \/ PruneSteps(t) \/ RecordSteps(t)
        \/ SnapshotSteps(t) \/ ClearSteps(t) \/ ExpFormat(t)

Spec == Init /\ [][Next]_vars

\* One caller: every operation runs to completion before the next begins.
NextSeq ==
    \/ CallConfigure(1) \/ CallRecord(1) \/ CallSnapshot(1) \/ CallClear(1) \/ CallExport(1)
    \/ CallMiddlewareInit(1)
    \/ ConfigureSteps(1) \/ PruneSteps(1) \/ RecordSteps(1)
    \/ SnapshotSteps(1) \/ ClearSteps(1) \/ ExpFormat(1)

SpecSeq == Init /\ [][NextSeq]_vars

\* Request threads that only record, against the store as a successful
\* configure(c) at startup leaves it.
InitRec == \E c \in 1..MaxCap : Fresh(c, TRUE)

NextRec ==
    \E t \in Threads : CallRecord(t) \/ RecordSteps(t) \/ PruneSteps(t)

SpecRec == InitRec /\ [][NextRec]_vars

\* A reader thread next to a writer thread: a short run of calls on a store
\* that was configured with a capacity of at least 1 and then took up to that
\* many entries.
MaxSnapCalls == 3

\* The lists of n dicts with contents from Entries, in the order recorded.
Recorded(n) == {[i \in 1..n |-> Elem(i, f[i])] : f \in [1..n -> Entries]}

\* The idle store after configure(c) and add_profile_data calls that left
\* the list l.
Prefilled(c, l) ==
    /\ max_retained_requests = c
    /\ profiled_requests_data = 1
    /\ heap = [o \in ObjIds |-> IF o = 1 THEN l ELSE <<>>]
    /\ lock = 0
    /\ pc = [t \in Threads |-> "idle"]
    /\ frame = [t \in Threads |-> EmptyFrame]
    /\ result = [t \in Threads |-> NoResult]
    /\ ncalls = 0
    /\ overlaps = 0
    /\ submitted = Vals(l)
    /\ steady = TRUE
    /\ base = [cap |-> c, entries |-> Vals(l)]
    /\ pending = <<>>
    /\ mw = [constructed |-> FALSE, enable_by_default |-> FALSE]
    /\ profiler_available = TRUE
    /\ now = 0
    /\ nrequests = 0
    /\ cls = Constructed

InitSnap ==
    \E c \in 1..MaxCap : \E n \in 0..c : \E l \in Recorded(n) : Prefilled(c, l)

NextSnap ==
    \/ /\ ncalls < MaxSnapCalls
       /\ \/ CallSnapshot(1) \/ CallExport(1)
          \/ CallConfigure(2) \/ CallRecord(2) \/ CallClear(2)
    \/ SnapshotSteps(1) \/ ExpFormat(1)
    \/ ConfigureSteps(2) \/ PruneSteps(2) \/ RecordSteps(2) \/ ClearSteps(2)

SpecSnap == InitSnap /\ [][NextSnap]_vars

\* add_profile_data accepts any dict: one with all six keys, one without
\* StatusCode and CPUTimeMs, one with a key more, one with none of the six.
LooseEntries ==
    {Entry("/a", 200),
     [Timestamp |-> 0, RequestPath |-> "/b", HTTPMethod |-> "GET", TotalTimeMs |-> 0],
     [Timestamp |-> 0, RequestPath |-> "/a", HTTPMethod |-> "GET", StatusCode |-> 200,
      TotalTimeMs |-> 0, CPUTimeMs |-> 0, Extra |-> "x"],
     [Extra |-> "x"]}

CallRecordLoose(t) ==
    \E e \in LooseEntries :
        Invoke(t, [EmptyFrame EXCEPT !.op = "record", !.data_arg = e, !.data_id = NewDict],
               "rec_lock")

\* The class before any FastAPIProfiler() call: no instance, so no list and no
\* capacity.  Two threads construct, and a thread that holds the instance
\* records and configures.
InitNew ==
    /\ max_retained_requests = Unset
    /\ profiled_requests_data = NoRef
    /\ heap = [o \in ObjIds |-> <<>>]
    /\ lock = 0
    /\ pc = [t \in Threads |-> "idle"]
    /\ frame = [t \in Threads |-> EmptyFrame]
    /\ result = [t \in Threads |-> NoResult]
    /\ ncalls = 0
    /\ overlaps = 0
    /\ submitted = <<>>
    /\ steady = TRUE
    /\ base = [cap |-> Unset, entries |-> <<>>]
    /\ pending = <<>>
    /\ mw = [constructed |-> FALSE, enable_by_default |-> FALSE]
    /\ profiler_available = TRUE
    /\ now = 0
    /\ nrequests = 0
    /\ cls = [obj |-> 0, created |-> 0, holders |-> {}]

NewSteps(t) ==
    \/ NewCheck(t) \/ NewLock(t) \/ NewRecheck(t) \/ NewCreate(t) \/ NewInitData(t)
    \/ NewInitCap(t) \/ NewUnlock(t) \/ NewReturn(t)

NewThread(t) ==
    \/ CallNew(t)
    \/ t \in cls.holders /\ (CallRecord(t) \/ CallConfigure(t))
    \/ NewSteps(t) \/ ConfigureSteps(t) \/ PruneSteps(t) \/ RecordSteps(t)

NextNew == NewThread(1) \/ NewThread(2)

SpecNew == InitNew /\ [][NextNew]_vars

\* Every operation of the store, from construction on, on two threads that
\* are scheduled fairly: a thread that can take a step of its operation
\* eventually takes one.  Which path an operation takes depends on whether
\* the capacity is valid and whether the list is longer than it, so one
\* entry and the capacities 0 and 1 are enough.
MaxLiveCalls == 4

LiveSteps(t) ==
    \/ NewSteps(t) \/ ConfigureSteps(t) \/ PruneSteps(t) \/ RecordSteps(t)
    \/ SnapshotSteps(t) \/ ClearSteps(t) \/ ExpFormat(t)

LiveThread(t) ==
    \/ /\ ncalls < MaxLiveCalls
       /\ \/ CallNew(t)
          \/ /\ t \in cls.holders
             /\ \/ CallConfigure(t) /\ frame'[t].cap_arg \in {0, 1}
                \/ CallRecord(t) /\ frame'[t].data_arg = Entry("/a", 200)
                \/ CallSnapshot(t) \/ CallClear(t) \/ CallExport(t)
    \/ LiveSteps(t)

NextLive == LiveThread(1) \/ LiveThread(2)

SpecLive ==
    /\ InitNew
    /\ [][NextLive]_vars
    /\ WF_vars(LiveSteps(1))
    /\ WF_vars(LiveSteps(2))

\* One caller that records dicts of any shape and exports, on a store that
\* already took some.
InitExport ==
    \E c \in 1..MaxCap : \E n \in 0..c :
        \E l \in {[i \in 1..n |-> Elem(i, f[i])] : f \in [1..n -> LooseEntries]} :
            Prefilled(c, l)

NextExport ==
    \/ /\ ncalls < MaxSnapCalls
       /\ CallRecordLoose(1) \/ CallExport(1)
    \/ RecordSteps(1) \/ PruneSteps(1) \/ SnapshotSteps(1) \/ ExpFormat(1)

SpecExport == InitExport /\ [][NextExport]_vars

\* One caller that records, takes snapshots and changes the lists it was
\* handed and the dicts in them.
NextAlias ==
    \/ CallRecord(1) \/ CallSnapshot(1)
    \/ RecordSteps(1) \/ PruneSteps(1) \/ SnapshotSteps(1)
    \/ MutateList(1) \/ MutateEntry(1)

SpecAlias == InitRec /\ [][NextAlias]_vars

\* The middleware: constructed once at startup, then requests are dispatched
\* concurrently.
InitMw == \E avail \in BOOLEAN : Fresh(DefaultCapacity, avail)

NextMw ==
    \/ \E t \in Threads :
          \/ ~mw.constructed /\ CallMiddlewareInit(t)
          \/ CallDispatch(t)
          \/ ConfigureSteps(t) \/ PruneSteps(t) \/ RecordSteps(t) \/ DispatchSteps(t)
    \/ Tick

SpecMw == InitMw /\ [][NextMw]_vars

\* The middleware, constructed at startup with a valid capacity, serving one
\* request at a time.
InitServing ==
    \E c \in 1..MaxCap : \E avail \in BOOLEAN : \E en \in BOOLEAN :
        Started(c, avail, [constructed |-> TRUE, enable_by_default |-> en])

NextMwSeq ==
    \/ CallDispatch(1)
    \/ PruneSteps(1) \/ RecordSteps(1) \/ DispatchSteps(1)
    \/ Tick

SpecMwSeq == InitServing /\ [][NextMwSeq]_vars

\* The middleware on one event loop: dispatch is a coroutine, so a request's
\* code runs without interruption from one await to the next; the only await
\* of dispatch is the one of call_next (line 101), during which other
\* requests run.
OnLoop(t) == \A u \in Threads \ {t} : pc[u] \in {"idle", "mw_await"}

\* A request running on the loop.
LoopTask(t) ==
    /\ OnLoop(t)
    /\ \/ CallDispatch(t) /\ frame'[t].query = "" /\ frame'[t].env = "false"
       \/ PruneSteps(t) \/ RecordSteps(t) \/ DispatchSteps(t)

\* Two requests at a time, none carrying the profile parameter.
NextLoop == LoopTask(1) \/ LoopTask(2) \/ Tick

\* ProfilerMiddleware.__init__ has run with enable_by_default=False (its
\* default) and a small max_retained_requests, so that eviction runs.
InitLoop ==
    \E c \in 1..MaxCap :
        Started(c, TRUE, [constructed |-> TRUE, enable_by_default |-> FALSE])

SpecLoop == InitLoop /\ [][NextLoop]_vars

\* ------------------------------------------------- the /profiler/clear route
\* src/main.py line 209: the route of the clearing endpoint.
ClearPath == "/profiler/clear"

\* A GET of /profiler/clear arrives at the middleware.
CallDispatchClear(t) ==
    /\ mw.constructed
    /\ nrequests < MaxRequests
    /\ Invoke(t, [EmptyFrame EXCEPT !.op = "dispatch", !.path = ClearPath,
                                    !.method = "GET", !.query = "", !.env = "false"],
              "mw_start")

\* A clearing endpoint that answers without clearing.
HandlerClearSkipped(t) ==
    /\ pc[t] = "mw_await"
    /\ frame[t].path = ClearPath
    /\ frame[t].downstream = ""
    /\ frame' = [frame EXCEPT ![t].downstream = "handled"]
    /\ UNCHANGED <<max_retained_requests, profiled_requests_data, heap, lock, pc, result,
                   rest>>

\* src/main.py lines 209-216: while dispatch waits at `await call_next`, the
\* handler clear_profiler_data runs: it calls profiler_instance.clear_data()
\* and then returns its message.
HandlerClear(t) ==
    /\ pc[t] = "mw_await"
    /\ frame[t].path = ClearPath
    /\ frame[t].downstream = ""
    /\ pc' = [pc EXCEPT ![t] = "clr_lock"]
    /\ UNCHANGED <<max_retained_requests, profiled_requests_data, heap, lock, frame, result,
                   rest>>

\* src/main.py line 30: max_retained_requests=500.
AppCapacity == 500

\* src/main.py lines 26-42: the application after startup: the middleware
\* installed with enable_by_default=False and a capacity of 500, the store
\* cleared by startup_event.
InitApp ==
    Started(AppCapacity, TRUE, [constructed |-> TRUE, enable_by_default |-> FALSE])

\* One request served by the application of src/main.py on the event loop:
\* the handler of /profiler/clear is clear_profiler_data, any other handler
\* returns or raises.  call_next comes back in dispatch in a turn of the loop
\* after the one in which the handler returned, so other requests can run in
\* between.  Far below the capacity of 500, _prune_old_data ends at its
\* comparison (line 75).
AppTask(t) ==
    /\ OnLoop(t)
    /\ \/ CallDispatch(t) /\ frame'[t].query = "" /\ frame'[t].env = "false"
       \/ CallDispatchClear(t)
       \/ MwStart(t)
       \/ CallNextReturns(t) /\ (frame[t].path = ClearPath => frame[t].downstream = "handled")
       \/ CallNextRaises(t)
       \/ HandlerClear(t) \/ ClearSteps(t)
       \/ MwFinally(t) \/ PruneLen(t) \/ PruneCmp(t) \/ RecordSteps(t) \/ MwReturn(t)

NextApp == AppTask(1) \/ AppTask(2)

SpecApp == InitApp /\ [][NextApp]_vars

\* --------------------------------------------- sequential semantics
\* add_profile_data run without interruption (lines 66-68, 75-77).
SeqRecord(st, e) ==
    LET a == Append(st.entries, e)
    IN  [cap |-> st.cap,
         entries |-> IF Len(a) > st.cap THEN SliceFrom(a, st.cap) ELSE a]

\* configure run without interruption (lines 50-54, 75-77).
SeqConfigure(st, c) ==
    IF InvalidCapacity(c)
    THEN st
    ELSE [cap |-> c,
          entries |-> IF Len(st.entries) > c THEN SliceFrom(st.entries, c) ELSE st.entries]

StoreNow == [cap |-> max_retained_requests, entries |-> CurrentEntries]

\* ---------------------------------------------------------------- C1
\* C1: whenever no store operation is in progress, the store holds at most
\* max_retained_requests entries.
CapacityBoundAtRest == AllIdle => Len(CurrentEntries) <= max_retained_requests

\* ---------------------------------------------------------------- C2
\* The part of an operation that reads or writes the entries or the capacity.
InCritical(t) ==
    pc[t] \in {"cfg_set", "prune_len", "prune_cmp", "prune_load", "prune_max",
               "prune_slice", "prune_store", "rec_load", "rec_append",
               "snap_load", "snap_copy", "clr_store"}

\* C2: no two threads are at once in the part of a store operation that reads
\* or writes the entries or the capacity.
MutualExclusion ==
    \A t1 \in Threads : \A t2 \in Threads :
        (t1 # t2) => ~(InCritical(t1) /\ InCritical(t2))

\* ---------------------------------------------------------------- C3
PairIs(op1, op2) ==
    /\ Len(pending) = 2
    /\ \/ pending[1].op = op1 /\ pending[2].op = op2
       \/ pending[1].op = op2 /\ pending[2].op = op1

CallOf(op) == IF pending[1].op = op THEN pending[1] ELSE pending[2]

\* C3: after a record and a configure that overlapped, the store is what one
\* of the two sequential orders of the two calls leaves.
RecordConfigureSerialize ==
    (AllIdle /\ PairIs("record", "configure")) =>
        LET e == CallOf("record").data
            c == CallOf("configure").cap
        IN  StoreNow \in {SeqConfigure(SeqRecord(base, e), c),
                          SeqRecord(SeqConfigure(base, c), e)}

\* ---------------------------------------------------------------- C4
\* How often e occurs in the sequence s.
Count(s, e) == Cardinality({i \in 1..Len(s) : s[i] = e})

\* C4: once K overlapping record calls on an empty store of capacity >= K are
\* done, the store holds exactly the K entries handed in, each as often as it
\* was handed in.
ConcurrentRecordsKept ==
    (AllIdle /\ Len(submitted) <= max_retained_requests) =>
        /\ Len(CurrentEntries) = Len(submitted)
        /\ \A e \in Entries : Count(CurrentEntries, e) = Count(submitted, e)

\* Two record calls overlapped, both are done, and nothing had to be evicted.
ConcurrentRecordsKeptWitness ==
    /\ AllIdle
    /\ overlaps >= 1
    /\ Len(submitted) >= 2
    /\ Len(submitted) <= max_retained_requests
    /\ Len(CurrentEntries) = Len(submitted)

\* ---------------------------------------------------------------- C5
\* The last k elements of s.
LastK(s, k) == [i \in 1..k |-> s[Len(s) - k + i]]

\* C5: after N sequential record calls on an empty store whose capacity C stays
\* fixed, the store holds the last min(N, C) entries recorded, in the order
\* recorded, equal entries included.
FifoWindow ==
    (AllIdle /\ steady) =>
        CurrentEntries = LastK(submitted, Min(Len(submitted), max_retained_requests))

\* More entries were recorded than the capacity, and the window that remains
\* holds the same entry twice.
FifoWindowWitness ==
    /\ AllIdle /\ steady
    /\ Len(submitted) > max_retained_requests
    /\ Len(CurrentEntries) = 2
    /\ CurrentEntries[1] = CurrentEntries[2]
    /\ submitted[1] # CurrentEntries[1]

\* ---------------------------------------------------------------- C6
\* Thread t's last operation was a dispatch and it has ended.
Dispatched(t) == pc[t] = "idle" /\ result[t].op = "dispatch"

SixFields(e) == DOMAIN e = {desired_columns[i] : i \in 1..Len(desired_columns)}

\* C6: every request dispatch has finished with, whether its handler returned
\* or raised, made exactly one call of add_profile_data, with an entry of all
\* six fields (requests whose profiler failed are set aside).
RecordOncePerRequest ==
    \A t \in Threads :
        (Dispatched(t) /\ result[t].raised # "ProfilerError") =>
            /\ result[t].nrec = 1
            /\ SixFields(result[t].entry)

\* ---------------------------------------------------------------- C7
\* C7: when the handler raised an Exception, dispatch has recorded one entry
\* with status 500 and has raised that same exception to its caller.
ExceptionRecordedAndPropagated ==
    \A t \in Threads :
        (/\ Dispatched(t)
         /\ result[t].downstream \in Failures
         /\ IsException(result[t].downstream)
         /\ result[t].raised # "ProfilerError") =>
            /\ result[t].nrec = 1
            /\ result[t].entry.StatusCode = SentinelStatus
            /\ result[t].raised = result[t].downstream

\* ---------------------------------------------------------------- C8
\* C8: when the request was cancelled while dispatch awaited the handler,
\* dispatch has still recorded one entry, with the sentinel status.
CancelledStillRecorded ==
    \A t \in Threads :
        (/\ Dispatched(t)
         /\ result[t].downstream = "CancelledError"
         /\ result[t].raised # "ProfilerError") =>
            /\ result[t].nrec = 1
            /\ result[t].entry.StatusCode = SentinelStatus

\* ---------------------------------------------------------------- C9
\* The call that just ended was configure (or a middleware constructor
\* calling it) with a capacity below 1.
InvalidConfigureEnded ==
    /\ AllIdle
    /\ Len(pending) = 1
    /\ pending[1].op \in {"configure", "mw_init"}
    /\ pending[1].cap < 1

\* C9: a configure call with a capacity below 1 has raised ValueError and has
\* left the capacity and the entries as they were when it was called.
InvalidConfigureRejected ==
    InvalidConfigureEnded =>
        /\ result[1].raised = "ValueError"
        /\ StoreNow = base

\* configure(0) or configure(-1) was rejected on a store that holds entries and
\* has a capacity other than the default.
InvalidConfigureRejectedWitness ==
    /\ InvalidConfigureEnded
    /\ pending[1].op = "configure"
    /\ result[1].raised = "ValueError"
    /\ CurrentEntries # <<>>
    /\ max_retained_requests # DefaultCapacity

\* --------------------------------------------------------------- C10
\* C10: the capacity is at least 1 in every state.
CapacityPositive == max_retained_requests >= 1

\* The middleware constructor and a plain configure call have both been
\* rejected, and the capacity set by an accepted call is in force.
CapacityPositiveWitness ==
    /\ mw.constructed
    /\ max_retained_requests # DefaultCapacity
    /\ result[1].raised = "ValueError"
    /\ submitted # <<>>

\* --------------------------------------------------------------- C11
\* The call that just ended was the only one in progress and was `op`.
LastCallIs(op) ==
    /\ AllIdle
    /\ Len(pending) = 1
    /\ pending[1].op = op

\* The call that just ended was configure (or a middleware constructor
\* calling it) with a capacity of at least 1.
ValidConfigureEnded ==
    /\ LastCallIs("configure") \/ LastCallIs("mw_init")
    /\ pending[1].cap >= 1

\* C11: a successful configure(c) leaves the capacity at c; a store that held
\* more than c entries keeps exactly its c most recent ones in order, a store
\* that held at most c entries keeps them all, so a larger capacity brings
\* nothing back.
ConfigureShrinks ==
    ValidConfigureEnded =>
        /\ result[1].raised = ""
        /\ max_retained_requests = pending[1].cap
        /\ CurrentEntries = IF Len(base.entries) > pending[1].cap
                            THEN LastK(base.entries, pending[1].cap)
                            ELSE base.entries

\* configure(1) on a store holding two different entries kept the newer one.
ConfigureShrinksWitness ==
    /\ ValidConfigureEnded
    /\ Len(base.entries) = 2
    /\ base.entries[1] # base.entries[2]
    /\ pending[1].cap = 1
    /\ CurrentEntries = <<base.entries[2]>>

\* --------------------------------------------------------------- C12
\* C12: a change the caller makes to a list get_profile_data returned, or to a
\* dict in that list, leaves what later get_profile_data calls return as it
\* was.
SnapshotIndependent ==
    [][(\E t \in Threads : MutateList(t) \/ MutateEntry(t))
           => CurrentEntries' = CurrentEntries]_vars

\* --------------------------------------------------------------- C13
\* C13: what get_profile_data returned is, entry for entry, what the store
\* held at the instant the call loaded the list, and what export_to_csv
\* returned is the CSV of what the store held at that instant, whatever
\* record, clear and configure calls ran next to it.
SnapshotAtOneInstant ==
    \A t \in Threads :
        (pc[t] = "idle" /\ result[t].raised = "") =>
            /\ result[t].op = "snapshot" => Vals(result[t].value) = result[t].seen
            /\ result[t].op = "export" => result[t].value = ToCsv(result[t].seen)

\* A get_profile_data call returned entries while a configure call was in
\* progress, and the store has changed since.
SnapshotAtOneInstantWitness ==
    \E t, u \in Threads :
        /\ pc[t] = "idle"
        /\ result[t].op = "snapshot"
        /\ result[t].value # <<>>
        /\ frame[u].op = "configure"
        /\ CurrentEntries # Vals(result[t].value)

\* --------------------------------------------------------------- C14
\* C14: clear_data leaves no entries and the capacity it found (so a second
\* clear_data leaves the same empty store); while nothing was handed to
\* add_profile_data since, the store holds nothing and get_profile_data
\* returns the empty list.
ClearIdempotent ==
    /\ LastCallIs("clear") =>
           /\ result[1].raised = ""
           /\ StoreNow = [cap |-> base.cap, entries |-> <<>>]
    /\ (AllIdle /\ submitted = <<>>) => CurrentEntries = <<>>
    /\ (LastCallIs("snapshot") /\ submitted = <<>>) => result[1].value = <<>>

\* clear_data has emptied a store that held two entries under a capacity
\* other than the default.
ClearIdempotentWitness ==
    /\ LastCallIs("clear")
    /\ Len(base.entries) = 2
    /\ base.cap # DefaultCapacity
    /\ CurrentEntries = <<>>

\* --------------------------------------------------------------- C15
\* C15: a step changes the capacity only when it is a step of configure, and
\* changes the entries only when it is a step of add_profile_data, configure
\* or clear_data; so clear_data, get_profile_data and export_to_csv leave the
\* capacity alone and the last two leave the entries alone.
FrameEffects ==
    [][\A t \in Threads :
           pc'[t] # pc[t] =>
               /\ max_retained_requests' # max_retained_requests
                      => frame[t].op \in {"configure", "mw_init"}
               /\ CurrentEntries' # CurrentEntries
                      => frame[t].op \in {"record", "dispatch", "configure", "mw_init",
                                          "clear"}]_vars

\* export_to_csv has returned rows from a store that holds entries, and the
\* store is as it was when the call began.
FrameEffectsWitness ==
    /\ LastCallIs("export")
    /\ Len(result[1].value) > 1
    /\ base.entries # <<>>
    /\ StoreNow = base

\* --------------------------------------------------------------- C16
\* C16: a successful configure(c) on a store whose capacity already is c, as
\* a configure(c) just before leaves it, changes neither the capacity nor the
\* entries.
ConfigureIdempotent ==
    (ValidConfigureEnded /\ base.cap = pending[1].cap) =>
        /\ result[1].raised = ""
        /\ StoreNow = base

\* configure(c) was called on a store of capacity c that was full, c not
\* being the default.
ConfigureIdempotentWitness ==
    /\ LastCallIs("configure")
    /\ pending[1].cap = base.cap
    /\ base.cap # DefaultCapacity
    /\ Len(base.entries) = base.cap
    /\ StoreNow = base

\* --------------------------------------------------------------- C17
\* The three signals as the request carries them, in either case of letters.
OverrideDisables(query) == query \in {"false", "FALSE"}
OverrideEnables(query) == query \in {"true", "TRUE"}
EnvEnables(env) == env \in {"true", "TRUE"}

\* The precedence the claim states.
ShouldMeasure(default_on, query, env) ==
    \/ default_on /\ ~OverrideDisables(query)
    \/ ~default_on /\ (OverrideEnables(query) \/ EnvEnables(env))

\* C17: where pyinstrument is available, dispatch goes on to the handler with
\* a started profiler exactly when the default flag is on and the override is
\* not a disable, or the default flag is off and the override is an enable or
\* the environment flag is on; it starts no profiler otherwise.
ActivationRule ==
    [][\A t \in Threads :
           (pc[t] = "mw_start" /\ pc'[t] # "mw_start") =>
               LET want == /\ profiler_available
                           /\ ShouldMeasure(mw.enable_by_default, frame[t].query,
                                            frame[t].env)
               IN  IF pc'[t] = "mw_await"
                   THEN frame'[t].profiler = want
                   ELSE want /\ result'[t].raised = "ProfilerError"]_vars

\* A request is being measured under a middleware whose default flag is off.
ActivationRuleWitness ==
    \E t \in Threads :
        /\ pc[t] = "mw_await"
        /\ frame[t].profiler
        /\ ~mw.enable_by_default

\* --------------------------------------------------------------- C18
\* C18: when FASTAPI_SIMPLE_PROFILER_ENABLED is "true" and pyinstrument is
\* available, dispatch goes on to the handler with a started profiler,
\* whatever enable_by_default and the query parameter are.
EnvEnablesAll ==
    [][\A t \in Threads :
           (/\ pc[t] = "mw_start"
            /\ pc'[t] = "mw_await"
            /\ EnvEnables(frame[t].env)
            /\ profiler_available) => frame'[t].profiler]_vars

\* --------------------------------------------------------------- C19
\* C19: no dispatch ends with a failure of the profiler; a dispatch whose
\* handler returned has recorded one entry and returned the handler's
\* response; without pyinstrument the recorded CPU time is 0.
ProfilerFailureHarmless ==
    \A t \in Threads :
        Dispatched(t) =>
            /\ result[t].raised # "ProfilerError"
            /\ result[t].downstream = "returned" =>
                   /\ result[t].raised = ""
                   /\ result[t].nrec = 1
                   /\ result[t].status \in Statuses
            /\ (~profiler_available /\ result[t].nrec = 1) =>
                   result[t].entry.CPUTimeMs = 0

\* --------------------------------------------------------------- C20
\* C20: what export_to_csv returned starts with the header row of the six
\* column names in their fixed order and goes on with one row per entry the
\* store held, in the store's order, each row giving the entry's six values
\* in the order of the header; for an empty store it is the header row alone.
ExportRows ==
    LastCallIs("export") =>
        LET rows == result[1].value
        IN  /\ result[1].raised = ""
            /\ Len(rows) = 1 + Len(base.entries)
            /\ rows[1] = <<"Timestamp", "RequestPath", "HTTPMethod", "StatusCode",
                           "TotalTimeMs", "CPUTimeMs">>
            /\ \A i \in 1..Len(base.entries) :
                   /\ Len(rows[i + 1]) = 6
                   /\ rows[i + 1][1] = base.entries[i].Timestamp
                   /\ rows[i + 1][2] = base.entries[i].RequestPath
                   /\ rows[i + 1][3] = base.entries[i].HTTPMethod
                   /\ rows[i + 1][4] = base.entries[i].StatusCode
                   /\ rows[i + 1][5] = base.entries[i].TotalTimeMs
                   /\ rows[i + 1][6] = base.entries[i].CPUTimeMs

\* export_to_csv returned the header and two rows for a store that held two
\* different entries.
ExportRowsWitness ==
    /\ LastCallIs("export")
    /\ Len(base.entries) = 2
    /\ base.entries[1] # base.entries[2]
    /\ Len(result[1].value) = 3
    /\ result[1].value[2][2] = base.entries[1].RequestPath
    /\ result[1].value[3][2] = base.entries[2].RequestPath

\* --------------------------------------------------------------- C21
\* C21: whatever keys the stored dicts have, what export_to_csv returned is
\* the six-name header and one row of exactly six cells per dict: the cell of
\* a column the dict has no key for is the missing value (written as an empty
\* cell), the cell of a column it has a key for is its value, and a key that
\* is no column appears nowhere.
ExportSixColumns ==
    LastCallIs("export") =>
        LET rows == result[1].value
        IN  /\ Len(rows) = 1 + Len(base.entries)
            /\ rows[1] = desired_columns
            /\ \A i \in 1..Len(base.entries) :
                   /\ Len(rows[i + 1]) = Len(desired_columns)
                   /\ \A j \in 1..Len(desired_columns) :
                          IF desired_columns[j] \in DOMAIN base.entries[i]
                          THEN rows[i + 1][j] = base.entries[i][desired_columns[j]]
                          ELSE rows[i + 1][j] = NA

\* export_to_csv returned rows for a store holding a dict without StatusCode
\* and a dict with a key that is no column.
ExportSixColumnsWitness ==
    /\ LastCallIs("export")
    /\ Len(base.entries) = 2
    /\ "StatusCode" \notin DOMAIN base.entries[1]
    /\ "RequestPath" \in DOMAIN base.entries[1]
    /\ "Extra" \in DOMAIN base.entries[2]
    /\ "StatusCode" \in DOMAIN base.entries[2]
    /\ result[1].value[2][4] = NA
    /\ result[1].value[3][4] = 200

\* --------------------------------------------------------------- C22
\* C22: at most one object is ever created (so its list and capacity are
\* initialised once), every FastAPIProfiler() call that has returned has
\* returned that object, and a FastAPIProfiler() call made on an initialised
\* store with nothing else in progress leaves capacity and entries as it
\* found them.
SingletonOnce ==
    /\ cls.created <= 1
    /\ \A t \in Threads :
           (pc[t] = "idle" /\ result[t].op = "new") =>
               /\ result[t].raised = ""
               /\ result[t].status = 1
               /\ cls.obj = 1
    /\ (LastCallIs("new") /\ base.cap # Unset) => StoreNow = base

\* Two threads raced through their first FastAPIProfiler() calls, entries
\* were recorded and the capacity configured, and a later FastAPIProfiler()
\* call has returned.
SingletonOnceWitness ==
    /\ LastCallIs("new")
    /\ overlaps = 1
    /\ cls.holders = {1, 2}
    /\ base.entries # <<>>
    /\ base.cap \notin {Unset, DefaultCapacity}
    /\ \E t \in Threads : result[t].op = "new" /\ result[t].status = 1

\* --------------------------------------------------------------- C23
\* The positions at which a thread asks for FastAPIProfiler._lock.
LockRequests == {"new_lock", "rec_lock", "snap_lock", "clr_lock"}

\* C23: no thread asks for the lock while it holds it, no thread holds the
\* lock once its operation has ended, and under fair scheduling every
\* operation that was invoked ends.
LockNeverBlocksForever ==
    /\ [](\A t \in Threads :
             /\ pc[t] \in LockRequests => lock # t
             /\ pc[t] = "idle" => lock # t)
    /\ \A t \in Threads : (pc[t] # "idle") ~> (pc[t] = "idle")

\* A thread waits for the lock while the other thread, inside
\* add_profile_data, holds it.
LockNeverBlocksForeverWitness ==
    \E t, u \in Threads :
        /\ pc[t] \in LockRequests
        /\ lock = u
        /\ frame[u].op = "record"
        /\ pc[u] \in {"prune_len", "prune_cmp", "prune_load", "prune_max", "prune_slice",
                       "prune_store"}

\* --------------------------------------------------------------- C24
\* Where the entry e stands in the store, when it stands there once.
PosOf(e) == CHOOSE i \in 1..Len(CurrentEntries) : CurrentEntries[i] = e

\* Threads t and u have each finished a request and recorded its entry, the
\* two entries differ and the store holds each of them once.
BothRecorded(t, u) ==
    /\ t # u
    /\ Dispatched(t) /\ result[t].nrec = 1
    /\ Dispatched(u) /\ result[u].nrec = 1
    /\ result[t].entry # result[u].entry
    /\ Count(CurrentEntries, result[t].entry) = 1
    /\ Count(CurrentEntries, result[u].entry) = 1

\* C24: of two requests served on the event loop, the one whose handler
\* finished first has its entry earlier in the store, whichever arrived
\* first.
CompletionOrder ==
    \A t, u \in Threads :
        (BothRecorded(t, u) /\ result[t].finish < result[u].finish) =>
            PosOf(result[t].entry) < PosOf(result[u].entry)

\* Request A arrived at time 0 and B at time 1, B's handler finished first,
\* and B's entry stands before A's.
CompletionOrderWitness ==
    \E a, b \in Threads :
        /\ BothRecorded(a, b)
        /\ result[b].finish < result[a].finish
        /\ result[a].entry.Timestamp * 1000 - result[a].entry.TotalTimeMs = 0
        /\ result[b].entry.Timestamp * 1000 - result[b].entry.TotalTimeMs = 1000
        /\ CurrentEntries = <<result[b].entry, result[a].entry>>

\* --------------------------------------------------------------- C25
\* C25: when dispatch returns from a request to /profiler/clear whose handler
\* ran, and no other request was in flight while it was served, the store
\* holds exactly one entry, the one of that request.
ClearLeavesOne ==
    [][\A t \in Threads :
           (/\ pc[t] = "mw_return"
            /\ pc'[t] = "idle"
            /\ frame[t].path = ClearPath
            /\ frame[t].downstream = "returned"
            /\ Len(pending) = 1
            /\ \A u \in Threads \ {t} : pc[u] = "idle") =>
               /\ result'[t].raised = ""
               /\ CurrentEntries' = <<frame[t].data_arg>>
               /\ frame[t].data_arg.RequestPath = ClearPath]_vars

\* An earlier request was recorded in a store with room for both; the
\* /profiler/clear request that came after it, alone, has returned, and its
\* entry is the only one in the store.
ClearLeavesOneWitness ==
    \E t \in Threads : \E u \in Threads \ {t} :
        /\ LastCallIs("dispatch")
        /\ max_retained_requests >= 2
        /\ nrequests = 2
        /\ Dispatched(u) /\ result[u].raised = "" /\ result[u].nrec = 1
        /\ result[u].entry.RequestPath # ClearPath
        /\ Dispatched(t) /\ result[t].raised = "" /\ result[t].downstream = "returned"
        /\ result[t].entry.RequestPath = ClearPath
        /\ result[u].finish < result[t].finish
        /\ CurrentEntries = <<result[t].entry>>

====
